---- MODULE Spec2Model ----
(***************************************************************************)
(* conventional-commits-types (src/lib.rs): the Commit, Footer and         *)
(* FooterSeparator value types, the textual conversions of the separator   *)
(* (Display / FromStr), the constructors and the derived equality.         *)
(*                                                                         *)
(* A &str is a finite sequence of one-character strings.  Option<T> is a   *)
(* sequence of length 0 (None) or 1 (Some).  A Vec<Footer> is a handle (an *)
(* address) to a buffer in `heap`; the binding that holds the handle owns  *)
(* the buffer.                                                             *)
(***************************************************************************)
EXTENDS Naturals, Sequences, FiniteSets

VARIABLES
    sep,         \* Option<FooterSeparator>: the variant last rendered by Display
    text,        \* &str: the text the caller holds (rendered, or of its own)
    parsed,      \* Option<Result<FooterSeparator, String>>: result of from_str(text)
    footers,     \* slot -> Option<Footer>: the caller's `let f1`, `let f2`
    footerArgs,  \* slot -> Option<<<token, separator, value>>> given to Footer::from
    commits,     \* slot -> Option<Commit>: the caller's `let c1`, `let c2`
    commitArgs,  \* slot -> Option<<<ty, scope, desc, body, is_breaking_change, footer>>>
    heap,        \* address -> contents of the Vec<Footer> buffer at that address
    callerVec    \* Option<address>: the caller's `let mut v: Vec<Footer>` (<<>> = moved/uninit)

vars == <<sep, text, parsed, footers, footerArgs, commits, commitArgs, heap, callerVec>>

sepVars    == <<sep, text, parsed>>
footerVars == <<footers, footerArgs>>
commitVars == <<commits, commitArgs, heap, callerVec>>

----------------------------------------------------------------------------
(* Bounds of the model *)

\* longest text handed to from_str
MaxLen == 3
\* longest token / value text of a footer in the footer specification
MaxTextLen == 1
\* longest footer sequence handed to Commit::from
MaxFooters == 2
\* Vec<Footer> buffers that can be live at once
NumAddr == 3

Slots == {1, 2}
Addr  == 1..NumAddr

\* characters of the texts handed to from_str: those of the two separators and of "->"
SepAlphabet == {":", " ", "#", "-", ">"}
\* characters of footer tokens and values in the footer specification
TextAlphabet == {"a", "b"}

SeqsUpTo(S, n) == UNION {[1..k -> S] : k \in 0..n}

----------------------------------------------------------------------------
(* Option<T> and Result<T, E> *)

None     == <<>>
Some(x)  == <<x>>
IsSome(o) == Len(o) = 1
Unwrap(o) == o[1]

Ok(v)  == [ok |-> TRUE,  val |-> v]
Err(e) == [ok |-> FALSE, err |-> e]

----------------------------------------------------------------------------
(* Primitive equality, as the derived PartialEq delegates to it *)

\* <str as PartialEq>::eq: same length, same bytes
StrEq(a, b) == Len(a) = Len(b) /\ \A i \in 1..Len(a) : a[i] = b[i]

\* <Option<&str> as PartialEq>::eq: both None, or both Some with equal texts
OptStrEq(a, b) ==
    IF IsSome(a) /\ IsSome(b) THEN StrEq(Unwrap(a), Unwrap(b))
    ELSE ~IsSome(a) /\ ~IsSome(b)

----------------------------------------------------------------------------
(* FooterSeparator *)

ColonSpace   == "ColonSpace"
SpaceHashTag == "SpaceHashTag"
FooterSeparator == {ColonSpace, SpaceHashTag}

SEPARATOR_COLON   == <<":", " ">>

Mut_SEPARATOR_HASHTAG == <<"#", " ">>
SEPARATOR_HASHTAG == <<" ", "#">>

Mut_FooterSeparator_default == SpaceHashTag
\* impl Default for FooterSeparator
FooterSeparator_default == ColonSpace

\* derived PartialEq of the field-less enum: same discriminant
FooterSeparator_eq(a, b) == a = b

Mut_fmt(self, f) == f \o SEPARATOR_COLON
\* impl fmt::Display: write!(f, "{}", ...) appends the literal to the formatter
fmt(self, f) ==
    CASE self = ColonSpace   -> f \o SEPARATOR_COLON
      [] self = SpaceHashTag -> f \o SEPARATOR_HASHTAG

\* ToString::to_string, provided by Display: format into an empty buffer
to_string(self) == fmt(self, <<>>)

\* the message of the error from_str returns
ERR_NOT_RECOGNIZED ==
    <<"f", "o", "o", "t", "e", "r", " ", "s", "e", "p", "a", "r", "a", "t", "o", "r",
      " ", "n", "o", "t", " ", "r", "e", "c", "o", "g", "n", "i", "z", "e", "d">>

\* str::trim, used by the mutants only
RECURSIVE TrimStart(_)
TrimStart(s) == IF s # <<>> /\ Head(s) = " " THEN TrimStart(Tail(s)) ELSE s
RECURSIVE TrimEnd(_)
TrimEnd(s) ==
    IF s # <<>> /\ s[Len(s)] = " " THEN TrimEnd(SubSeq(s, 1, Len(s) - 1)) ELSE s

Mut_from_str_trim(s) ==
    IF StrEq(TrimEnd(s), TrimEnd(SEPARATOR_COLON)) THEN Ok(ColonSpace)
    ELSE IF StrEq(TrimStart(s), TrimStart(SEPARATOR_HASHTAG)) THEN Ok(SpaceHashTag)
    ELSE Err(ERR_NOT_RECOGNIZED)
Mut_from_str_carry(s) ==
    IF StrEq(s, SEPARATOR_COLON) THEN Ok(ColonSpace)
    ELSE IF StrEq(s, SEPARATOR_HASHTAG) THEN Ok(SpaceHashTag)
    ELSE Err(s)
\* impl FromStr: match s { SEPARATOR_COLON => .., SEPARATOR_HASHTAG => .., _ => Err(..) }
from_str(s) ==
    IF StrEq(s, SEPARATOR_COLON) THEN Ok(ColonSpace)
    ELSE IF StrEq(s, SEPARATOR_HASHTAG) THEN Ok(SpaceHashTag)
    ELSE Err(ERR_NOT_RECOGNIZED)

----------------------------------------------------------------------------
(* Footer *)

\* Footer::from
Footer_from(token, separator, value) ==
    [token |-> token, separator |-> separator, value |-> value]

\* derived Default: "" for &str, FooterSeparator::default() for the separator
Footer_default ==
    [token |-> <<>>, separator |-> FooterSeparator_default, value |-> <<>>]

\* Footer::new
Footer_new == Footer_default

Mut_Footer_eq(a, b) == StrEq(a.token, b.token) /\ StrEq(a.value, b.value)
\* derived PartialEq: field by field in declaration order
Footer_eq(a, b) ==
    /\ StrEq(a.token, b.token)
    /\ FooterSeparator_eq(a.separator, b.separator)
    /\ StrEq(a.value, b.value)

----------------------------------------------------------------------------
(* Initial state: nothing rendered, parsed or constructed yet *)

Init ==
    /\ sep = None
    /\ text = <<>>
    /\ parsed = None
    /\ footers = [i \in Slots |-> None]
    /\ footerArgs = [i \in Slots |-> None]
    /\ commits = [i \in Slots |-> None]
    /\ commitArgs = [i \in Slots |-> None]
    /\ heap = [a \in Addr |-> <<>>]
    /\ callerVec = None

----------------------------------------------------------------------------
(* Separator conversions *)

\* text = v.to_string()
Display(v) ==
    /\ sep' = Some(v)
    /\ text' = to_string(v)
    /\ parsed' = None
    /\ UNCHANGED <<footerVars, commitVars>>

\* the caller takes a text of its own
Input(s) ==
    /\ sep' = None
    /\ text' = s
    /\ parsed' = None
    /\ UNCHANGED <<footerVars, commitVars>>

\* parsed = text.parse::<FooterSeparator>()
Parse ==
    /\ parsed = None
    /\ parsed' = Some(from_str(text))
    /\ UNCHANGED <<sep, text, footerVars, commitVars>>

NextSeparator ==
    \/ \E v \in FooterSeparator : Display(v)
    \/ \E s \in SeqsUpTo(SepAlphabet, MaxLen) : Input(s)
    \/ Parse

SpecSeparator == Init /\ [][NextSeparator]_vars

----------------------------------------------------------------------------
(* Footer construction *)

FooterTexts == SeqsUpTo(TextAlphabet, MaxTextLen)

\* let f_i = Footer::from(token, separator, value)
MakeFooter(i, token, separator, value) ==
    /\ footers[i] = None
    /\ footers' = [footers EXCEPT ![i] = Some(Footer_from(token, separator, value))]
    /\ footerArgs' = [footerArgs EXCEPT ![i] = Some(<<token, separator, value>>)]
    /\ UNCHANGED <<sepVars, commitVars>>

\* let f_i = Footer::new()
NewFooter(i) ==
    /\ footers[i] = None
    /\ footers' = [footers EXCEPT ![i] = Some(Footer_new)]
    /\ UNCHANGED <<footerArgs, sepVars, commitVars>>

NextFooter ==
    \/ \E i \in Slots, t \in FooterTexts, s \in FooterSeparator, v \in FooterTexts :
          MakeFooter(i, t, s, v)
    \/ \E i \in Slots : NewFooter(i)

SpecFooter == Init /\ [][NextFooter]_vars

----------------------------------------------------------------------------
(* Vec<Footer> buffers *)

\* addresses of the buffers owned by a live binding
Used ==
    {Unwrap(callerVec) : x \in {y \in {callerVec} : IsSome(y)}}
        \cup {Unwrap(commits[i]).footer : i \in {j \in Slots : IsSome(commits[j])}}

Free == Addr \ Used

\* the allocator hands out the lowest free address
FreshAddr == CHOOSE a \in Free : \A b \in Free : a <= b

\* Vec::new / Vec::default: no elements
Vec_new == <<>>

Mut_Vec_eq(x, y) ==
    /\ Len(heap[x]) = Len(heap[y])
    /\ \A i \in 1..Len(heap[x]) : \E j \in 1..Len(heap[y]) : Footer_eq(heap[x][i], heap[y][j])
\* <Vec<Footer> as PartialEq>::eq: same length and equal elements, position by position
Vec_eq(x, y) ==
    /\ Len(heap[x]) = Len(heap[y])
    /\ \A i \in 1..Len(heap[x]) : Footer_eq(heap[x][i], heap[y][i])

AliasArgument(binding) == binding
\* the caller's binding after its Vec was passed by value (`footer: Vec<Footer<'a>>`):
\* the value is moved out and the binding is no longer usable
PassByValue(binding) == None

----------------------------------------------------------------------------
(* Commit *)

Mut_Commit_from(ty, scope, desc, body, is_breaking_change, footer) ==
    [body |-> scope, desc |-> desc, footer |-> footer,
     is_breaking_change |-> is_breaking_change, scope |-> body, ty |-> ty]
\* Commit::from
Commit_from(ty, scope, desc, body, is_breaking_change, footer) ==
    [body |-> body, desc |-> desc, footer |-> footer,
     is_breaking_change |-> is_breaking_change, scope |-> scope, ty |-> ty]

Mut_Commit_default(footer) ==
    [body |-> None, desc |-> <<>>, footer |-> footer,
     is_breaking_change |-> FALSE, scope |-> Some(<<>>), ty |-> <<>>]
\* derived Default: None for Option, "" for &str, false for bool; `footer` is the
\* handle of the empty Vec that Vec::default() returns
Commit_default(footer) ==
    [body |-> None, desc |-> <<>>, footer |-> footer,
     is_breaking_change |-> FALSE, scope |-> None, ty |-> <<>>]

\* Commit::new
Commit_new(footer) == Commit_default(footer)

\* derived PartialEq: field by field in declaration order
Commit_eq(a, b) ==
    /\ OptStrEq(a.body, b.body)
    /\ StrEq(a.desc, b.desc)
    /\ Vec_eq(a.footer, b.footer)
    /\ a.is_breaking_change = b.is_breaking_change
    /\ OptStrEq(a.scope, b.scope)
    /\ StrEq(a.ty, b.ty)

----------------------------------------------------------------------------
(* Inputs of the commit specifications *)

Feat   == <<"f", "e", "a", "t">>
AddSupport == <<"a", "d", "d">>
Details == <<"w", "h", "y">>
Fixes  == <<"F", "i", "x", "e", "s">>
IssueNo == <<"1", "2", "3">>

TyPool    == {<<>>, Feat}
ScopePool == {None, Some(<<>>)}
DescPool  == {<<>>, AddSupport}
BodyPool  == {None, Some(Details)}

\* <<token, separator, value>> given to Footer::from for the elements of a footer Vec
FooterArgPool == {<<Fixes, SpaceHashTag, IssueNo>>, <<<<>>, ColonSpace, <<>>>>}

\* vec![Footer::from(..), ..] built element by element from the argument tuples
FootersOf(fargs) ==
    [k \in 1..Len(fargs) |-> Footer_from(fargs[k][1], fargs[k][2], fargs[k][3])]

\* the argument tuples that rebuild the footers of a buffer
ArgsOf(fs) == [k \in 1..Len(fs) |-> <<fs[k].token, fs[k].separator, fs[k].value>>]

----------------------------------------------------------------------------
(* Commit construction from a temporary Vec: let c1 = ..; let c2 = ..; *)

\* let c_i = Commit::from(ty, scope, desc, body, is_breaking_change, vec![..])
MakeCommit(i, ty, scope, desc, body, is_breaking_change, fargs) ==
    /\ commits[i] = None
    /\ i = 1 \/ commits[1] # None
    /\ Free # {}
    /\ LET a == FreshAddr IN
        /\ heap' = [heap EXCEPT ![a] = FootersOf(fargs)]
        /\ commits' = [commits EXCEPT
              ![i] = Some(Commit_from(ty, scope, desc, body, is_breaking_change, a))]
    /\ commitArgs' = [commitArgs EXCEPT
          ![i] = Some(<<ty, scope, desc, body, is_breaking_change, fargs>>)]
    /\ UNCHANGED <<callerVec, sepVars, footerVars>>

\* let c_i = Commit::new()
NewCommit(i) ==
    /\ commits[i] = None
    /\ i = 1 \/ commits[1] # None
    /\ Free # {}
    /\ LET a == FreshAddr IN
        /\ heap' = [heap EXCEPT ![a] = Vec_new]
        /\ commits' = [commits EXCEPT ![i] = Some(Commit_new(a))]
    /\ UNCHANGED <<commitArgs, callerVec, sepVars, footerVars>>

NextCommit ==
    \/ \E i \in Slots, ty \in TyPool, scope \in ScopePool, desc \in DescPool,
          body \in BodyPool, b \in BOOLEAN, fargs \in SeqsUpTo(FooterArgPool, MaxFooters) :
          MakeCommit(i, ty, scope, desc, body, b, fargs)
    \/ \E i \in Slots : NewCommit(i)

SpecCommit == Init /\ [][NextCommit]_vars

----------------------------------------------------------------------------
(* Commit construction from the caller's own Vec, and what the caller does to
   that Vec afterwards: let mut v = vec![..]; let c1 = Commit::from(.., v); *)

\* v = vec![..]: the new buffer is built, then the old value of v (if any) is dropped
CallerAssign(fargs) ==
    /\ Free # {}
    /\ LET a == FreshAddr IN
        /\ heap' = IF IsSome(callerVec)
                     THEN [heap EXCEPT ![a] = FootersOf(fargs), ![Unwrap(callerVec)] = <<>>]
                     ELSE [heap EXCEPT ![a] = FootersOf(fargs)]
        /\ callerVec' = Some(a)
    /\ UNCHANGED <<commits, commitArgs, sepVars, footerVars>>

\* v.push(Footer::from(..))
CallerPush(farg) ==
    /\ IsSome(callerVec)
    /\ Len(heap[Unwrap(callerVec)]) < MaxFooters
    /\ heap' = [heap EXCEPT ![Unwrap(callerVec)] =
                  Append(@, Footer_from(farg[1], farg[2], farg[3]))]
    /\ UNCHANGED <<callerVec, commits, commitArgs, sepVars, footerVars>>

\* v.pop()
CallerPop ==
    /\ IsSome(callerVec)
    /\ Len(heap[Unwrap(callerVec)]) > 0
    /\ heap' = [heap EXCEPT ![Unwrap(callerVec)] = SubSeq(@, 1, Len(@) - 1)]
    /\ UNCHANGED <<callerVec, commits, commitArgs, sepVars, footerVars>>

\* v[k] = Footer::from(..)
CallerReplace(k, farg) ==
    /\ IsSome(callerVec)
    /\ k \in 1..Len(heap[Unwrap(callerVec)])
    /\ heap' = [heap EXCEPT ![Unwrap(callerVec)] =
                  [@ EXCEPT ![k] = Footer_from(farg[1], farg[2], farg[3])]]
    /\ UNCHANGED <<callerVec, commits, commitArgs, sepVars, footerVars>>

\* v.reverse()
CallerReverse ==
    /\ IsSome(callerVec)
    /\ Len(heap[Unwrap(callerVec)]) >= 2
    /\ heap' = [heap EXCEPT ![Unwrap(callerVec)] =
                  [k \in 1..Len(@) |-> @[Len(@) + 1 - k]]]
    /\ UNCHANGED <<callerVec, commits, commitArgs, sepVars, footerVars>>

\* let c1 = Commit::from(ty, scope, desc, body, is_breaking_change, v)
MoveIntoCommit(ty, scope, desc, body, is_breaking_change) ==
    /\ commits[1] = None
    /\ IsSome(callerVec)
    /\ commits' = [commits EXCEPT ![1] =
          Some(Commit_from(ty, scope, desc, body, is_breaking_change, Unwrap(callerVec)))]
    /\ commitArgs' = [commitArgs EXCEPT ![1] =
          Some(<<ty, scope, desc, body, is_breaking_change, ArgsOf(heap[Unwrap(callerVec)])>>)]
    /\ callerVec' = PassByValue(callerVec)
    /\ UNCHANGED <<heap, sepVars, footerVars>>

\* let c1 = Commit::from(ty, scope, desc, body, is_breaking_change, v.clone())
CloneIntoCommit(ty, scope, desc, body, is_breaking_change) ==
    /\ commits[1] = None
    /\ IsSome(callerVec)
    /\ Free # {}
    /\ LET a == FreshAddr IN
        /\ heap' = [heap EXCEPT ![a] = heap[Unwrap(callerVec)]]
        /\ commits' = [commits EXCEPT ![1] =
              Some(Commit_from(ty, scope, desc, body, is_breaking_change, a))]
    /\ commitArgs' = [commitArgs EXCEPT ![1] =
          Some(<<ty, scope, desc, body, is_breaking_change, ArgsOf(heap[Unwrap(callerVec)])>>)]
    /\ UNCHANGED <<callerVec, sepVars, footerVars>>

NextOwnership ==
    \/ \E fargs \in SeqsUpTo(FooterArgPool, MaxFooters) : CallerAssign(fargs)
    \/ \E farg \in FooterArgPool : CallerPush(farg)
    \/ CallerPop
    \/ \E k \in 1..MaxFooters, farg \in FooterArgPool : CallerReplace(k, farg)
    \/ CallerReverse
    \/ \E ty \in TyPool, scope \in ScopePool, desc \in DescPool, body \in BodyPool,
          b \in BOOLEAN : MoveIntoCommit(ty, scope, desc, body, b)
    \/ \E ty \in TyPool, scope \in ScopePool, desc \in DescPool, body \in BodyPool,
          b \in BOOLEAN : CloneIntoCommit(ty, scope, desc, body, b)

SpecOwnership == Init /\ [][NextOwnership]_vars

----------------------------------------------------------------------------
(* Properties *)

\* the commit / footer held by a slot
C(i) == Unwrap(commits[i])
F(i) == Unwrap(footers[i])

\* slot i was built by Commit::from / Commit::new
CommitFromBuilt(i) == IsSome(commits[i]) /\ IsSome(commitArgs[i])
CommitNewBuilt(i)  == IsSome(commits[i]) /\ ~IsSome(commitArgs[i])
\* slot i was built by Footer::from / Footer::new
FooterFromBuilt(i) == IsSome(footers[i]) /\ IsSome(footerArgs[i])
FooterNewBuilt(i)  == IsSome(footers[i]) /\ ~IsSome(footerArgs[i])

\* C1: once a variant v has been rendered by Display and the rendered text has been
\* parsed by from_str, the parse succeeded and returned v.
C1_RoundTrip ==
    (IsSome(sep) /\ IsSome(parsed)) =>
        (Unwrap(parsed).ok /\ Unwrap(parsed).val = Unwrap(sep))

C1_Witness ==
    /\ IsSome(sep) /\ Unwrap(sep) = SpaceHashTag
    /\ IsSome(parsed) /\ Unwrap(parsed).ok

\* C2: from_str returns ColonSpace exactly for the text ": ", SpaceHashTag exactly for
\* the text " #", and a failure, never a variant, for every other text.
C2_ParseAcceptsExactlyTwo ==
    IsSome(parsed) =>
        LET r == Unwrap(parsed) IN
        /\ (text = <<":", " ">>) => (r.ok /\ r.val = ColonSpace)
        /\ (text = <<" ", "#">>) => (r.ok /\ r.val = SpaceHashTag)
        /\ (text \notin {<<":", " ">>, <<" ", "#">>}) => ~r.ok

C2_Witness ==
    /\ text = <<" ", "#", " ">>
    /\ IsSome(parsed) /\ ~Unwrap(parsed).ok

C5_VerbatimConstruction ==
    \A i \in Slots :
        CommitFromBuilt(i) =>
            LET c == C(i)
                a == Unwrap(commitArgs[i])
                fs == heap[C(i).footer] IN
            /\ c.ty = a[1]
            /\ c.scope = a[2]
            /\ c.desc = a[3]
            /\ c.body = a[4]
            /\ c.is_breaking_change = a[5]
            /\ Len(fs) = Len(a[6])
            /\ \A k \in 1..Len(fs) :
                  /\ fs[k].token = a[6][k][1]
                  /\ fs[k].separator = a[6][k][2]
                  /\ fs[k].value = a[6][k][3]

C5_Witness ==
    /\ CommitFromBuilt(1)
    /\ Unwrap(commitArgs[1]) =
          <<<<>>, None, <<>>, Some(Details), FALSE,
            <<<<Fixes, SpaceHashTag, IssueNo>>, <<<<>>, ColonSpace, <<>>>>>>>>
    /\ C(1).ty = <<>> /\ C(1).desc = <<>>
    /\ C(1).scope = None /\ C(1).body = Some(Details)
    /\ Len(heap[C(1).footer]) = 2
    /\ heap[C(1).footer][2].token = <<>>

\* C6: two commits built by Commit::from are equal (derived ==) exactly when their six
\* arguments were equal, the footer sequences being compared position by position.
C6_CommitEqStructural ==
    (CommitFromBuilt(1) /\ CommitFromBuilt(2)) =>
        (Commit_eq(C(1), C(2)) <=> (Unwrap(commitArgs[1]) = Unwrap(commitArgs[2])))

\* the footer sequences are [A, B] and [B, A] with A # B, all else equal: unequal commits
C6_Witness ==
    /\ CommitFromBuilt(1) /\ CommitFromBuilt(2)
    /\ \A k \in 1..5 : Unwrap(commitArgs[1])[k] = Unwrap(commitArgs[2])[k]
    /\ Unwrap(commitArgs[1])[6] = <<<<Fixes, SpaceHashTag, IssueNo>>, <<<<>>, ColonSpace, <<>>>>>>
    /\ Unwrap(commitArgs[2])[6] = <<<<<<>>, ColonSpace, <<>>>>, <<Fixes, SpaceHashTag, IssueNo>>>>
    /\ ~Commit_eq(C(1), C(2))

\* C7: two footers built by Footer::from are equal (derived ==) exactly when their
\* three arguments were equal.
C7_FooterEqStructural ==
    (FooterFromBuilt(1) /\ FooterFromBuilt(2)) =>
        (Footer_eq(F(1), F(2)) <=> (Unwrap(footerArgs[1]) = Unwrap(footerArgs[2])))

\* the two footers differ in the separator alone, and are unequal
C7_Witness ==
    /\ FooterFromBuilt(1) /\ FooterFromBuilt(2)
    /\ Unwrap(footerArgs[1]) = <<<<"a">>, ColonSpace, <<"b">>>>
    /\ Unwrap(footerArgs[2]) = <<<<"a">>, SpaceHashTag, <<"b">>>>
    /\ ~Footer_eq(F(1), F(2))

\* C8: once the commit has been built, no step of the caller (assigning, pushing to,
\* popping from, replacing in or reversing its own footer Vec) changes the commit's
\* fields or the contents of the commit's footer sequence.
C8_IndependentAfterConstruction ==
    [][IsSome(commits[1]) =>
          /\ commits'[1] = commits[1]
          /\ heap'[C(1).footer] = heap[C(1).footer]]_vars

\* the caller holds a Vec again after the construction and has made it differ
C8_Witness ==
    /\ CommitFromBuilt(1)
    /\ IsSome(callerVec)
    /\ Unwrap(callerVec) # C(1).footer
    /\ heap[Unwrap(callerVec)] # heap[C(1).footer]
    /\ ArgsOf(heap[C(1).footer]) = Unwrap(commitArgs[1])[6]
    /\ Len(heap[C(1).footer]) = 2

\* C9: FooterSeparator::default() is ColonSpace, and a footer built by Footer::new has
\* an empty token, the default separator (ColonSpace) and an empty value.
C9_FooterDefaults ==
    /\ FooterSeparator_default = ColonSpace
    /\ \A i \in Slots :
          FooterNewBuilt(i) =>
              /\ F(i).token = <<>>
              /\ F(i).separator = ColonSpace
              /\ F(i).value = <<>>

C9_Witness == FooterNewBuilt(1) /\ F(1).separator = FooterSeparator_default

\* C10: a commit built by Commit::new has an empty ty and desc, no scope, no body,
\* is_breaking_change = false and no footers, and is equal (derived ==) to any commit
\* built by Commit::from("", None, "", None, false, vec![]).
C10_CommitDefaults ==
    \A i \in Slots :
        CommitNewBuilt(i) =>
            /\ C(i).ty = <<>>
            /\ C(i).desc = <<>>
            /\ C(i).scope = None
            /\ C(i).body = None
            /\ C(i).is_breaking_change = FALSE
            /\ heap[C(i).footer] = <<>>
            /\ \A j \in Slots :
                  (CommitFromBuilt(j)
                     /\ Unwrap(commitArgs[j]) = <<<<>>, None, <<>>, None, FALSE, <<>>>>)
                  => Commit_eq(C(i), C(j))

C10_Witness ==
    /\ CommitNewBuilt(1)
    /\ CommitFromBuilt(2)
    /\ Unwrap(commitArgs[2]) = <<<<>>, None, <<>>, None, FALSE, <<>>>>
    /\ Commit_eq(C(1), C(2))

====
